---- MODULE Spec2Model ----
(***************************************************************************)
(* Model of the Prometheus-to-Parquet metrics collector.                   *)
(*                                                                         *)
(*  Spec        main (the ticker/signal select loop) and collectAndStore,  *)
(*              with each CollectMetrics/CollectMetricsRange/StoreMetrics  *)
(*              call as a call step and a return step.                     *)
(*  FairSpec    Spec with the fairness the Go scheduler and select give.   *)
(*  CollectSpec one CollectMetrics / CollectMetricsRange call, goroutine   *)
(*              by goroutine and channel operation by channel operation.   *)
(*  StoreSpec   StoreMetrics calls against a file system, step by step.    *)
(*                                                                         *)
(* Time is counted in hours since an epoch day 0, 00:00 UTC.               *)
(***************************************************************************)
EXTENDS Integers, Sequences, FiniteSets, TLC

\* ---------------------------------------------------------------- bounds
NumProxies == 2
NumMetrics == 2
NumKeys == 1
MaxSamples == 2
NumValues == 1
MaxStart == 1
MaxSpan == 25
MaxNowDay == 1
MaxPlaceholders == 2

\* ------------------------------------------------------ program constants
BatchHours == 6
HoursPerDay == 24
DefaultRangeStep == 1
batchSize == 1000
MillisPerHour == 3600000

\* The zero time.Time (cfg.StartTime / cfg.EndTime when no flag was given).
ZeroTime == 0 - 1
\* Values of the --start / --end flags that are not a time: flag absent,
\* and a string time.Parse rejects.
NotGiven == 0 - 2
Unparsable == 0 - 3

Min(a, b) == IF a < b THEN a ELSE b

\* cfg.APIProxies and cfg.Prometheus.Metrics: names are their positions.
APIProxies == [i \in 1..NumProxies |-> i]
Metrics == [i \in 1..NumMetrics |-> [Name |-> i]]
\* The names of the configured API proxies, as query texts, labels and
\* directory names carry them.
ProxyNames == <<"memento", "orders", "billing", "users">>

\* The values of the --start and --end flags: absent, not RFC3339, or a time,
\* which may be 0001-01-01T00:00:00Z, the zero time.
StartFlags == {NotGiven, Unparsable, ZeroTime} \cup (0..MaxStart)
EndFlags == {NotGiven, Unparsable, ZeroTime} \cup (0..(MaxStart + MaxSpan))
\* The command lines explored: the zero time is paired with the zero time,
\* the earliest time or an absent flag, every other value with every other.
FlagPairs ==
    {p \in StartFlags \X EndFlags :
        (p[1] = ZeroTime \/ p[2] = ZeroTime) =>
            (p[1] \in {ZeroTime, 0} /\ p[2] \in {ZeroTime, 0, NotGiven})}
NowTimes == {d * HoursPerDay : d \in 0..MaxNowDay}

\* prometheus.rangeStep in the configuration file, in hours: a negative
\* duration, or omitted (0).
YamlRangeSteps == {0 - 1, 0}
\* The configurations explored: a negative step is paired with the earliest
\* start and an end time on the command line (the step is read by range
\* batches only).
StepPairs ==
    {p \in YamlRangeSteps \X FlagPairs : p[1] < 0 => (p[2][1] = 0 /\ p[2][2] >= 0)}
\* LoadConfig: cfg.Prometheus.RangeStep after the defaults are set.
LoadRangeStep(y) == IF y = 0 THEN DefaultRangeStep ELSE y

\* time.Time methods used by the driver.
IsZero(t) == t = ZeroTime
\* Mutant: Before also holds of equal times.
Before_OrEqual(t, u) == t <= u
Before(t, u) == t < u
After(t, u) == t > u
\* t.Format("2006"), "01", "02" together: the calendar day of t.
FormatDay(t) == t \div HoursPerDay
\* t.Format("150405"): the time of day of t (midnight is 00:00:00).
FormatHHMMSS(t) == t % HoursPerDay

NoRange == [Start |-> ZeroTime, End |-> ZeroTime, Step |-> 0]

\* ------------------------------------------------------------- variables
VARIABLES
    \* main
    mainpc, cfg, supplied, startupErr, tickerC, tickerStopped, sigCh, sigDelivered, activeRuns,
    \* collectAndStore
    dpc, fileDate, proxyIdx, batchDuration, batchStart, batchEnd,
    metrics, err, sinkArgs, collectLog, sinkActive, runFailed,
    \* CollectMetrics / CollectMetricsRange
    cpc, call, launched, tpc, tresp, tsent, tlog, wg, closerpc,
    resultsChan, errorsChan, warningsChan, closed, allResults, allErrors, cret,
    \* StoreMetrics and the files under the output directory
    spc, sargs, si, pwBuf, files, fwOpen, finpc, writeStopErr, orphans, sret,
    fileBefore, timer, firstReady,
    \* one Sink call of an earlier moment, remembered
    watched,
    \* one query goroutine of CollectMetrics / CollectMetricsRange
    qpc, qtask

mainVars == <<mainpc, cfg, supplied, startupErr, tickerC, tickerStopped, sigCh, sigDelivered, activeRuns>>
driverVars == <<dpc, fileDate, proxyIdx, batchDuration, batchStart, batchEnd,
                metrics, err, sinkArgs, collectLog, sinkActive, runFailed>>
collVars == <<cpc, call, launched, tpc, tresp, tsent, tlog, wg, closerpc,
              resultsChan, errorsChan, warningsChan, closed, allResults, allErrors, cret>>
storeVars == <<spc, sargs, si, pwBuf, files, fwOpen, finpc, writeStopErr, orphans, sret,
               fileBefore, timer, firstReady>>
queryVars == <<qpc, qtask>>
vars == <<mainVars, driverVars, collVars, storeVars, watched, queryVars>>

\* ------------------------------------------------- backend and query tasks
\* The evaluation times of a range query: Start, Start+Step, ... up to and
\* including End (the backend's range-query contract).
StepTimes(tr) ==
    IF tr.Step <= 0 \/ tr.End < tr.Start THEN << >>
    ELSE [i \in 1..((tr.End - tr.Start) \div tr.Step + 1) |-> tr.Start + (i - 1) * tr.Step]

Resp(kind, warnings, points) == [kind |-> kind, warnings |-> warnings, points |-> points]

\* The label sets of the two series the backend answers with.
SeriesLabels == << {<<"apiproxy", "p">>}, {<<"apiproxy", "p">>, <<"code", "200">>} >>

\* The points of one series, in time order, each with its series' labels.
PointsOf(labels, times) ==
    [i \in 1..Len(times) |-> [Labels |-> labels, Timestamp |-> times[i], Value |-> i]]

\* A non-empty answer: the two series one after the other, each with a point
\* at every one of the times (the order in which the switch walks the answer).
SeriesPoints(times) == PointsOf(SeriesLabels[1], times) \o PointsOf(SeriesLabels[2], times)

\* What api.QueryRange may answer for the range tr.
RangeResponses(tr) ==
    IF tr.Step <= 0
    THEN \* the backend rejects a zero or negative resolution step
         {Resp(k, FALSE, << >>) : k \in {"error", "timeout"}}
    ELSE {Resp(k, w, << >>) : k \in {"error", "timeout", "vector", "scalar", "matrix"}, w \in BOOLEAN}
             \cup {Resp("matrix", w, SeriesPoints(StepTimes(tr))) : w \in BOOLEAN}

\* What api.Query may answer at time now.
InstantResponses(now) ==
    {Resp(k, w, << >>) : k \in {"error", "timeout", "vector", "scalar", "matrix"}, w \in BOOLEAN}
        \cup {Resp(k, w, SeriesPoints(<<now>>)) : k \in {"vector", "matrix"}, w \in BOOLEAN}

\* Mutant: only the label the configuration names is kept.
CopyLabels_Configured(labels) == {l \in labels : l[1] = "apiproxy"}

\* for labelName, labelValue := range sample.Metric { Labels[labelName] = labelValue }
CopyLabels(labels) == {<<l[1], l[2]>> : l \in labels}

\* One MetricResult per point of the answer, named after the metric.
MetricResults(name, points) ==
    [i \in 1..Len(points) |->
        [Name |-> name, Timestamp |-> points[i].Timestamp, Value |-> points[i].Value,
         Labels |-> CopyLabels(points[i].Labels)]]

SendError(name, what) == [chan |-> "errors", error |-> [metric |-> name, what |-> what], results |-> << >>]
SendResults(rs) == [chan |-> "results", error |-> [metric |-> 0, what |-> "none"], results |-> rs]

\* What the goroutine of CollectMetrics sends for metric name on answer r.
InstantTask(name, r) ==
    IF r.kind \in {"error", "timeout"} THEN SendError(name, "query")
    ELSE IF r.kind = "vector" THEN SendResults(MetricResults(name, r.points))
    ELSE IF r.kind = "matrix" THEN SendResults(MetricResults(name, r.points))
    ELSE SendError(name, "unsupported")

\* Mutant: the range task has the cases of the instant task (a vector is
\* accepted as well).
RangeTask_AlsoVector(name, r) ==
    IF r.kind \in {"error", "timeout"} THEN SendError(name, "query")
    ELSE IF r.kind \in {"matrix", "vector"} THEN SendResults(MetricResults(name, r.points))
    ELSE SendError(name, "unsupported")

\* What the goroutine of CollectMetricsRange sends for metric name on answer r.
RangeTask(name, r) ==
    IF r.kind \in {"error", "timeout"} THEN SendError(name, "query")
    ELSE IF r.kind = "matrix" THEN SendResults(MetricResults(name, r.points))
    ELSE SendError(name, "unsupported")

\* Mutant: only the first error received is reported.
CollectReturn_FirstError(results, errors) ==
    IF Len(errors) > 0 THEN [metrics |-> << >>, err |-> <<errors[1]>>]
    ELSE [metrics |-> results, err |-> << >>]

\* The return statement of CollectMetrics / CollectMetricsRange:
\* (nil, error naming allErrors) when any error was received, else (allResults, nil).
CollectReturn(results, errors) ==
    IF Len(errors) > 0 THEN [metrics |-> << >>, err |-> errors]
    ELSE [metrics |-> results, err |-> << >>]

RECURSIVE Gather(_, _, _)
\* The results and errors of the sends outs[i..], in index order.
Gather(outs, i, acc) ==
    IF i > Len(outs) THEN acc
    ELSE Gather(outs, i + 1,
                IF outs[i].chan = "errors"
                THEN [acc EXCEPT !.errors = Append(@, outs[i].error)]
                ELSE [acc EXCEPT !.results = @ \o outs[i].results])

\* The values a whole collect call can return when its tasks send outs.
CallReturn(outs) ==
    LET g == Gather(outs, 1, [results |-> << >>, errors |-> << >>])
    IN  CollectReturn(g.results, g.errors)

\* The sends the tasks of one call can make, one per configured metric.
RangeOutcomes(tr) ==
    {[i \in 1..NumMetrics |-> RangeTask(Metrics[i].Name, r[i])] :
        r \in [1..NumMetrics -> {x \in RangeResponses(tr) : ~x.warnings}]}

InstantOutcomes(now) ==
    {[i \in 1..NumMetrics |-> InstantTask(Metrics[i].Name, r[i])] :
        r \in [1..NumMetrics -> {x \in InstantResponses(now) : ~x.warnings}]}

\* The ranges collectAndStore can ask for: at most BatchHours long, with the
\* configured step.
BatchRanges ==
    {[Start |-> s, End |-> s + n, Step |-> LoadRangeStep(y)] :
        s \in 0..(MaxStart + MaxSpan), n \in 0..BatchHours, y \in YamlRangeSteps}

\* What a CollectMetricsRange call can return, for each of these ranges.
RangeReturnsOf == [tr \in BatchRanges |-> {CallReturn(outs) : outs \in RangeOutcomes(tr)}]

\* What a CollectMetricsRange call for tr, and a CollectMetrics call at now,
\* can return.
RangeReturns(tr) == RangeReturnsOf[tr]
InstantReturns(now) == {CallReturn(outs) : outs \in InstantOutcomes(now)}

\* ------------------------------------------------------------------ main
\* cfg after flag handling: --range forces UseRangeQuery; --start and --end,
\* when both given, force it too and set StartTime/EndTime.
ParseFlags(yamlUseRange, rangeStep, rangeFlag, startTimeStr, endTimeStr) ==
    IF startTimeStr # NotGiven /\ endTimeStr # NotGiven
    THEN [UseRangeQuery |-> TRUE, RangeStep |-> rangeStep,
          StartTime |-> startTimeStr, EndTime |-> endTimeStr]
    ELSE [UseRangeQuery |-> (yamlUseRange \/ rangeFlag), RangeStep |-> rangeStep,
          StartTime |-> ZeroTime, EndTime |-> ZeroTime]

\* Mutant: only a rejected start time is fatal.
FlagsFatal_StartOnly(startTimeStr, endTimeStr) ==
    /\ startTimeStr # NotGiven
    /\ endTimeStr # NotGiven
    /\ startTimeStr = Unparsable

\* log.Fatalf on a start or end flag that time.Parse rejects.
FlagsFatal(startTimeStr, endTimeStr) ==
    /\ startTimeStr # NotGiven
    /\ endTimeStr # NotGiven
    /\ (startTimeStr = Unparsable \/ endTimeStr = Unparsable)

\* The first step of main that returns an error: config.LoadConfig, the
\* time.Parse of --start or of --end (called when both flags are non-empty),
\* prometheus.NewClient, storage.NewParquetStorage; "none" when all succeed.
StartupError(loadOk, startTimeStr, endTimeStr, clientOk, storeOk) ==
    IF ~loadOk THEN "config"
    ELSE IF startTimeStr # NotGiven /\ endTimeStr # NotGiven /\ startTimeStr = Unparsable THEN "start"
    ELSE IF startTimeStr # NotGiven /\ endTimeStr # NotGiven /\ endTimeStr = Unparsable THEN "end"
    ELSE IF ~clientOk THEN "client"
    ELSE IF ~storeOk THEN "storage"
    ELSE "none"

NoCfg == [UseRangeQuery |-> FALSE, RangeStep |-> 0, StartTime |-> ZeroTime, EndTime |-> ZeroTime]

\* No Sink call is remembered.
NoWatch == [set |-> FALSE, rerun |-> FALSE,
            unit |-> [apiProxy |-> 0, timeRange |-> NoRange],
            key |-> [day |-> 0, app |-> 0, name |-> << >>]]

\* The first statements of collectAndStore: the partition date of the run.
\* (A remembered Sink call is from now on one of an earlier run.)
EnterCollectAndStore(c) ==
    /\ activeRuns' = activeRuns + 1
    /\ dpc' = "for_proxy"
    /\ proxyIdx' = 1
    /\ \E now \in NowTimes :
         fileDate' = IF ~IsZero(c.StartTime) THEN c.StartTime ELSE now
    /\ collectLog' = << >>
    /\ watched' = [watched EXCEPT !.rerun = watched.set]
    /\ UNCHANGED <<batchDuration, batchStart, batchEnd, metrics, err, sinkArgs, sinkActive, runFailed>>

\* main up to the initial collection: load the configuration, read the flags,
\* build the client and the storage, register the signals, create the ticker,
\* call collectAndStore.
Startup ==
    /\ mainpc = "start"
    /\ \E loadOk \in BOOLEAN, clientOk \in BOOLEAN, storeOk \in BOOLEAN,
          yamlUseRange \in BOOLEAN, yamlRangeStep \in YamlRangeSteps, rangeFlag \in BOOLEAN,
          startTimeStr \in StartFlags, endTimeStr \in EndFlags :
         /\ <<yamlRangeStep, <<startTimeStr, endTimeStr>>>> \in StepPairs
         /\ startupErr' = StartupError(loadOk, startTimeStr, endTimeStr, clientOk, storeOk)
         /\ IF ~loadOk \/ FlagsFatal(startTimeStr, endTimeStr) \/ ~clientOk \/ ~storeOk
            THEN /\ mainpc' = "fatal"
                 /\ UNCHANGED <<cfg, supplied, activeRuns, driverVars, watched>>
            ELSE /\ mainpc' = "run"
                 /\ cfg' = ParseFlags(yamlUseRange, LoadRangeStep(yamlRangeStep), rangeFlag,
                                    startTimeStr, endTimeStr)
                 /\ supplied' = (startTimeStr # NotGiven /\ endTimeStr # NotGiven)
                 /\ EnterCollectAndStore(cfg')
    /\ UNCHANGED <<tickerC, tickerStopped, sigCh, sigDelivered>>
    /\ UNCHANGED <<collVars, storeVars, queryVars>>

\* Mutant: ticker.C buffers two ticks.
TickerCap_Two == 1 + 1

\* The capacity of ticker.C, the channel time.NewTicker makes.
TickerCap == 1

\* The runtime's ticker: a tick is sent on ticker.C unless the channel is
\* full (the tick is then dropped) or the ticker was stopped.
TickFire ==
    /\ mainpc \in {"run", "select"}
    /\ ~tickerStopped
    /\ tickerC < TickerCap
    /\ tickerC' = tickerC + 1
    /\ UNCHANGED <<mainpc, cfg, supplied, startupErr, tickerStopped, sigCh, sigDelivered, activeRuns, driverVars>>
    /\ UNCHANGED <<collVars, storeVars, watched, queryVars>>

\* SIGINT/SIGTERM delivered to the process: os/signal puts it on sigCh
\* (capacity 1) without blocking.
SignalDeliver ==
    /\ mainpc \in {"run", "select"}
    /\ sigCh' = 1
    /\ sigDelivered' = TRUE
    /\ UNCHANGED <<mainpc, cfg, supplied, startupErr, tickerC, tickerStopped, activeRuns, driverVars>>
    /\ UNCHANGED <<collVars, storeVars, watched, queryVars>>

\* Mutant: the tick case starts the run without waiting for it (go collectAndStore).
MainAtSelect_Async == mainpc \in {"select", "run"}

\* main is blocked in the select of its loop (collectAndStore has returned).
MainAtSelect == mainpc = "select"

\* case <-ticker.C: collectAndStore(...)
SelectTick ==
    /\ MainAtSelect
    /\ tickerC >= 1
    /\ tickerC' = tickerC - 1
    /\ mainpc' = "run"
    /\ EnterCollectAndStore(cfg)
    /\ UNCHANGED <<cfg, supplied, startupErr, tickerStopped, sigCh, sigDelivered>>
    /\ UNCHANGED <<collVars, storeVars, queryVars>>

\* Mutant: the signal case stops the ticker but does not leave the loop.
SelectSignal_NoReturn ==
    /\ MainAtSelect
    /\ sigCh = 1
    /\ sigCh' = 0
    /\ tickerStopped' = TRUE
    /\ UNCHANGED <<mainpc, cfg, supplied, startupErr, tickerC, sigDelivered, activeRuns, driverVars>>
    /\ UNCHANGED <<collVars, storeVars, watched, queryVars>>

\* case <-sigCh: ticker.Stop(); return
SelectSignal ==
    /\ MainAtSelect
    /\ sigCh = 1
    /\ sigCh' = 0
    /\ tickerStopped' = TRUE
    /\ mainpc' = "exited"
    /\ UNCHANGED <<cfg, supplied, startupErr, tickerC, sigDelivered, activeRuns, driverVars>>
    /\ UNCHANGED <<collVars, storeVars, watched, queryVars>>

\* ------------------------------------------------------- collectAndStore
\* if cfg.Prometheus.UseRangeQuery && !cfg.StartTime.IsZero() && !cfg.EndTime.IsZero()
UseBatches(c) == c.UseRangeQuery /\ ~IsZero(c.StartTime) /\ ~IsZero(c.EndTime)

\* Mutant: a batch is one range step long.
BatchDuration_OneStep(c) == Min(c.EndTime - c.StartTime, c.RangeStep)

\* batchDuration: 6 hours, or the total duration when that is shorter.
BatchDuration(c) ==
    LET totalDuration == c.EndTime - c.StartTime
    IN  IF totalDuration < BatchHours THEN totalDuration ELSE BatchHours

\* Mutant: the end of a batch is not clipped to the end of the range.
BatchEnd_NoClip(bStart, bDuration, c) == bStart + bDuration

\* batchEnd := batchStart.Add(batchDuration), clipped to cfg.EndTime.
BatchEnd(bStart, bDuration, c) ==
    IF After(bStart + bDuration, c.EndTime) THEN c.EndTime ELSE bStart + bDuration

\* Mutant: the batch loop does not advance (the same window is tried again).
NextBatchStart_Retry(bStart, bDuration) == bStart

\* The post statement of the batch loop.
NextBatchStart(bStart, bDuration) == bStart + bDuration

\* Mutant: a failed or empty batch ends the batch loop of its proxy.
ContinueBatchLoop_Break(bStart, bDuration, c) == c.EndTime

\* continue (after a collect error or an empty result): the loop's post
\* statement runs and the next batch is attempted.
ContinueBatchLoop(bStart, bDuration, c) == NextBatchStart(bStart, bDuration)

\* Mutant: the name of a batch file also tells the first run from later ones
\* (as a name made from the wall clock would).
BatchFilename_PerRun(apiProxy, bStart, bEnd) ==
    [day |-> FormatDay(bStart), app |-> apiProxy,
     name |-> <<FormatHHMMSS(bStart), FormatHHMMSS(bEnd), IF watched.rerun THEN 1 ELSE 0>>]

\* Mutant: a batch is stored under the name of the instant file of its day.
BatchFilename_NoTimes(apiProxy, bStart, bEnd) ==
    [day |-> FormatDay(bStart), app |-> apiProxy, name |-> << >>]

\* year=YYYY/month=MM/day=DD/app=<apiProxy>/metrics_<HHMMSS>_<HHMMSS>.parquet
BatchFilename(apiProxy, bStart, bEnd) ==
    [day |-> FormatDay(bStart), app |-> apiProxy,
     name |-> <<FormatHHMMSS(bStart), FormatHHMMSS(bEnd)>>]

\* year=YYYY/month=MM/day=DD/app=<apiProxy>/metrics.parquet
InstantFilename(date, apiProxy) ==
    [day |-> FormatDay(date), app |-> apiProxy, name |-> << >>]

NoFilename == [day |-> 0, app |-> 0, name |-> << >>]
\* The arguments of the store.StoreMetrics call in progress (none: NoSinkArgs).
NoSinkArgs == [metrics |-> << >>, filename |-> NoFilename]

\* for _, apiProxy := range cfg.APIProxies  -- no proxy left: the run returns.
ForProxyDone ==
    /\ dpc = "for_proxy"
    /\ proxyIdx > Len(APIProxies)
    /\ dpc' = "idle"
    /\ activeRuns' = activeRuns - 1
    /\ mainpc' = IF mainpc = "run" THEN "select" ELSE mainpc
    /\ UNCHANGED <<cfg, supplied, startupErr, tickerC, tickerStopped, sigCh, sigDelivered>>
    /\ UNCHANGED <<fileDate, proxyIdx, batchDuration, batchStart, batchEnd,
                   metrics, err, sinkArgs, collectLog, sinkActive, runFailed>>
    /\ UNCHANGED <<collVars, storeVars, watched, queryVars>>

\* Range mode for the next proxy: the batch duration and the loop's init.
ForProxyRange ==
    /\ dpc = "for_proxy"
    /\ proxyIdx <= Len(APIProxies)
    /\ UseBatches(cfg)
    /\ batchDuration' = BatchDuration(cfg)
    /\ batchStart' = cfg.StartTime
    /\ dpc' = "for_batch"
    /\ UNCHANGED <<mainVars, fileDate, proxyIdx, batchEnd, metrics, err, sinkArgs,
                   collectLog, sinkActive, runFailed>>
    /\ UNCHANGED <<collVars, storeVars, watched, queryVars>>

\* Instant mode for the next proxy: client.CollectMetrics(apiProxy) is called.
ForProxyInstant ==
    /\ dpc = "for_proxy"
    /\ proxyIdx <= Len(APIProxies)
    /\ ~UseBatches(cfg)
    /\ collectLog' = Append(collectLog, [apiProxy |-> APIProxies[proxyIdx], timeRange |-> NoRange])
    /\ dpc' = "instant_collect"
    /\ UNCHANGED <<mainVars, fileDate, proxyIdx, batchDuration, batchStart, batchEnd,
                   metrics, err, sinkArgs, sinkActive, runFailed>>
    /\ UNCHANGED <<collVars, storeVars, watched, queryVars>>

\* The batch loop's condition holds: client.CollectMetricsRange(apiProxy, timeRange) is called.
ForBatchCollect ==
    /\ dpc = "for_batch"
    /\ Before(batchStart, cfg.EndTime)
    /\ batchEnd' = BatchEnd(batchStart, batchDuration, cfg)
    /\ collectLog' = Append(collectLog,
            [apiProxy |-> APIProxies[proxyIdx],
             timeRange |-> [Start |-> batchStart, End |-> batchEnd', Step |-> cfg.RangeStep]])
    /\ dpc' = "range_collect"
    /\ UNCHANGED <<mainVars, fileDate, proxyIdx, batchDuration, batchStart,
                   metrics, err, sinkArgs, sinkActive, runFailed>>
    /\ UNCHANGED <<collVars, storeVars, watched, queryVars>>

\* The batch loop's condition fails: on to the next proxy.
ForBatchDone ==
    /\ dpc = "for_batch"
    /\ ~Before(batchStart, cfg.EndTime)
    /\ proxyIdx' = proxyIdx + 1
    /\ dpc' = "for_proxy"
    /\ UNCHANGED <<mainVars, fileDate, batchDuration, batchStart, batchEnd,
                   metrics, err, sinkArgs, collectLog, sinkActive, runFailed>>
    /\ UNCHANGED <<collVars, storeVars, watched, queryVars>>

\* Mutant: the error of the collect call is not checked before storing.
RangeStores_IgnoreErr(ret) == TRUE

\* The batch's Sink call is made only for a call without error and with samples.
RangeStores(ret) == Len(ret.err) = 0 /\ Len(ret.metrics) # 0

\* CollectMetricsRange returns; on an error or an empty result the loop
\* continues, otherwise store.StoreMetrics(metrics, batchFilename) is called.
RangeCollectReturn ==
    /\ dpc = "range_collect"
    /\ \E ret \in RangeReturns([Start |-> batchStart, End |-> batchEnd, Step |-> cfg.RangeStep]) :
         IF RangeStores(ret)
         THEN /\ metrics' = ret.metrics
              /\ err' = ret.err
              /\ sinkArgs' = [metrics |-> ret.metrics,
                              filename |-> BatchFilename(APIProxies[proxyIdx], batchStart, batchEnd)]
              /\ sinkActive' = sinkActive + 1
              /\ dpc' = "range_store"
              /\ UNCHANGED <<batchStart, runFailed>>
         ELSE /\ metrics' = << >>
              /\ err' = << >>
              /\ batchStart' = ContinueBatchLoop(batchStart, batchDuration, cfg)
              /\ dpc' = "for_batch"
              /\ runFailed' = TRUE
              /\ UNCHANGED <<sinkArgs, sinkActive>>
    /\ UNCHANGED <<mainVars, fileDate, proxyIdx, batchDuration, batchEnd, collectLog>>
    /\ UNCHANGED <<collVars, storeVars, watched, queryVars>>

\* StoreMetrics returns (with or without error): metrics = nil, next batch.
RangeStoreReturn ==
    /\ dpc = "range_store"
    /\ \E storeErr \in BOOLEAN :
         /\ metrics' = << >>
         /\ err' = << >>
         /\ sinkArgs' = NoSinkArgs
         /\ sinkActive' = sinkActive - 1
         /\ runFailed' = (runFailed \/ storeErr)
         /\ batchStart' = NextBatchStart(batchStart, batchDuration)
         /\ dpc' = "for_batch"
    /\ UNCHANGED <<mainVars, fileDate, proxyIdx, batchDuration, batchEnd, collectLog>>
    /\ UNCHANGED <<collVars, storeVars, watched, queryVars>>

\* Mutant: an empty result is skipped in instant mode as well.
InstantStores_NonEmpty(ret) == Len(ret.err) = 0 /\ Len(ret.metrics) # 0

\* The instant Sink call is made for every call without error.
InstantStores(ret) == Len(ret.err) = 0

\* CollectMetrics returns; on an error the proxy is skipped, otherwise
\* store.StoreMetrics(metrics, filename) is called.
InstantCollectReturn ==
    /\ dpc = "instant_collect"
    /\ \E ret \in UNION {InstantReturns(now) : now \in NowTimes} :
         IF InstantStores(ret)
         THEN /\ metrics' = ret.metrics
              /\ err' = ret.err
              /\ sinkArgs' = [metrics |-> ret.metrics,
                              filename |-> InstantFilename(fileDate, APIProxies[proxyIdx])]
              /\ sinkActive' = sinkActive + 1
              /\ dpc' = "instant_store"
              /\ UNCHANGED <<proxyIdx, runFailed>>
         ELSE /\ metrics' = << >>
              /\ err' = << >>
              /\ proxyIdx' = proxyIdx + 1
              /\ dpc' = "for_proxy"
              /\ runFailed' = TRUE
              /\ UNCHANGED <<sinkArgs, sinkActive>>
    /\ UNCHANGED <<mainVars, fileDate, batchDuration, batchStart, batchEnd, collectLog>>
    /\ UNCHANGED <<collVars, storeVars, watched, queryVars>>

\* StoreMetrics returns (with or without error): next proxy.
InstantStoreReturn ==
    /\ dpc = "instant_store"
    /\ \E storeErr \in BOOLEAN :
         /\ metrics' = << >>
         /\ err' = << >>
         /\ sinkArgs' = NoSinkArgs
         /\ sinkActive' = sinkActive - 1
         /\ runFailed' = (runFailed \/ storeErr)
         /\ proxyIdx' = proxyIdx + 1
         /\ dpc' = "for_proxy"
    /\ UNCHANGED <<mainVars, fileDate, batchDuration, batchStart, batchEnd, collectLog>>
    /\ UNCHANGED <<collVars, storeVars, watched, queryVars>>

\* The Sink call in progress for the first target in a range-mode run is
\* remembered: its unit and the file name it was given.
WatchKey ==
    /\ ~watched.set
    /\ dpc = "range_store"
    /\ proxyIdx = 1
    /\ watched' = [set |-> TRUE, rerun |-> FALSE,
                   unit |-> collectLog[Len(collectLog)], key |-> sinkArgs.filename]
    /\ UNCHANGED <<mainVars, driverVars, collVars, storeVars, queryVars>>

DriverStep ==
    \/ ForProxyDone
    \/ ForProxyRange
    \/ ForProxyInstant
    \/ ForBatchCollect
    \/ ForBatchDone
    \/ RangeCollectReturn
    \/ RangeStoreReturn
    \/ InstantCollectReturn
    \/ InstantStoreReturn

\* ------------------------------------- CollectMetrics / CollectMetricsRange
\* The range and the instant the modelled calls are made for.
CallRange == [Start |-> 0, End |-> BatchHours, Step |-> DefaultRangeStep]
CallNow == 0
NoCall == [mode |-> "none", apiProxy |-> 0, timeRange |-> NoRange, n |-> 0]
NoResp == Resp("none", FALSE, << >>)
\* What a task has done so far: the query it issued (for which metric, target
\* and range) and the number of values it has sent to the caller.
NoTaskLog == [queried |-> FALSE, name |-> 0, apiProxy |-> 0, timeRange |-> NoRange, sends |-> 0]

\* Mutant: every goroutine reads the loop variable, which holds the last
\* metric by the time it runs.
TaskCfg_LoopVariable(m) == Metrics[call.n]

\* The cfg parameter of the goroutine started for the m-th metric: the loop's
\* metricCfg, passed by value.
TaskCfg(m) == Metrics[m]

\* Mutant: the channels are one slot short of the number of metrics.
ChanCap_OneShort == IF call.n > 0 THEN call.n - 1 ELSE 0

\* The capacity of resultsChan, errorsChan and warningsChan: len(c.config.Metrics).
ChanCap == call.n

Responses ==
    IF call.mode = "range" THEN RangeResponses(call.timeRange) ELSE InstantResponses(CallNow)

\* What the goroutine for metric name sends for the answer r.
Task(name, r) ==
    IF call.mode = "range" THEN RangeTask(name, r) ELSE InstantTask(name, r)

\* CollectMetrics(apiProxy) or CollectMetricsRange(apiProxy, timeRange) is
\* called: the three channels and the wait group are made.
CollectCallFor(proxies) ==
    /\ cpc \in {"idle", "returned"}
    /\ \E mode \in {"instant", "range"}, p \in proxies, n \in 0..NumMetrics :
         call' = [mode |-> mode, apiProxy |-> APIProxies[p],
                  timeRange |-> IF mode = "range" THEN CallRange ELSE NoRange, n |-> n]
    /\ cpc' = "launch"
    /\ launched' = 0
    /\ tpc' = [m \in 1..NumMetrics |-> "none"]
    /\ tresp' = [m \in 1..NumMetrics |-> NoResp]
    /\ tsent' = [m \in 1..NumMetrics |-> "none"]
    /\ tlog' = [m \in 1..NumMetrics |-> NoTaskLog]
    /\ wg' = 0
    /\ closerpc' = "none"
    /\ resultsChan' = << >>
    /\ errorsChan' = << >>
    /\ warningsChan' = << >>
    /\ closed' = {}
    /\ allResults' = << >>
    /\ allErrors' = << >>
    /\ cret' = CollectReturn(<< >>, << >>)
    /\ UNCHANGED <<mainVars, driverVars, storeVars, watched, queryVars>>

CollectCall == CollectCallFor(1..NumProxies)

\* for _, metricCfg := range c.config.Metrics { wg.Add(1); go func(cfg) {...} }
Launch ==
    /\ cpc = "launch"
    /\ launched < call.n
    /\ launched' = launched + 1
    /\ wg' = wg + 1
    /\ tpc' = [tpc EXCEPT ![launched + 1] = "query"]
    /\ UNCHANGED <<cpc, call, tresp, tsent, closerpc, resultsChan, errorsChan,
                   warningsChan, closed, allResults, allErrors, cret>>
    /\ UNCHANGED tlog
    /\ UNCHANGED <<mainVars, driverVars, storeVars, watched, queryVars>>

\* go func() { wg.Wait(); close(...) }() is started and the caller goes on
\* to range over warningsChan.
LaunchCloser ==
    /\ cpc = "launch"
    /\ launched = call.n
    /\ closerpc' = "wait"
    /\ cpc' = "warnings"
    /\ UNCHANGED <<call, launched, tpc, tresp, tsent, wg, resultsChan, errorsChan,
                   warningsChan, closed, allResults, allErrors, cret>>
    /\ UNCHANGED tlog
    /\ UNCHANGED <<mainVars, driverVars, storeVars, watched, queryVars>>

\* Task m's query returns (within its own timeout). On an error the task
\* sends it on errorsChan and ends (defer wg.Done()).
TaskQuery(m) ==
    /\ tpc[m] = "query"
    /\ \E r \in Responses :
         LET issued == [tlog[m] EXCEPT !.queried = TRUE, !.name = TaskCfg(m).Name,
                                       !.apiProxy = call.apiProxy,
                                       !.timeRange = call.timeRange] IN
         IF r.kind \in {"error", "timeout"}
         THEN IF "errors" \in closed
              THEN /\ tpc' = [tpc EXCEPT ![m] = "panic"]
                   /\ tlog' = [tlog EXCEPT ![m] = issued]
                   /\ UNCHANGED <<errorsChan, tsent, wg, tresp>>
              ELSE /\ Len(errorsChan) < ChanCap
                   /\ errorsChan' = Append(errorsChan, Task(TaskCfg(m).Name, r).error)
                   /\ tsent' = [tsent EXCEPT ![m] = "errors"]
                   /\ tlog' = [tlog EXCEPT ![m] = [issued EXCEPT !.sends = @ + 1]]
                   /\ wg' = wg - 1
                   /\ tpc' = [tpc EXCEPT ![m] = "done"]
                   /\ UNCHANGED tresp
         ELSE /\ tresp' = [tresp EXCEPT ![m] = r]
              /\ tpc' = [tpc EXCEPT ![m] = "warn"]
              /\ tlog' = [tlog EXCEPT ![m] = issued]
              /\ UNCHANGED <<errorsChan, tsent, wg>>
    /\ UNCHANGED <<cpc, call, launched, closerpc, resultsChan, warningsChan, closed,
                   allResults, allErrors, cret>>
    /\ UNCHANGED <<mainVars, driverVars, storeVars, watched, queryVars>>

\* if len(warnings) > 0 { warningsChan <- warnings }
TaskWarn(m) ==
    /\ tpc[m] = "warn"
    /\ IF ~tresp[m].warnings
       THEN /\ tpc' = [tpc EXCEPT ![m] = "shape"]
            /\ UNCHANGED warningsChan
       ELSE IF "warnings" \in closed
       THEN /\ tpc' = [tpc EXCEPT ![m] = "panic"]
            /\ UNCHANGED warningsChan
       ELSE /\ Len(warningsChan) < ChanCap
            /\ warningsChan' = Append(warningsChan, TaskCfg(m).Name)
            /\ tpc' = [tpc EXCEPT ![m] = "shape"]
    /\ UNCHANGED <<cpc, call, launched, tresp, tsent, wg, closerpc, resultsChan,
                   errorsChan, closed, allResults, allErrors, cret>>
    /\ UNCHANGED tlog
    /\ UNCHANGED <<mainVars, driverVars, storeVars, watched, queryVars>>

\* switch result.Type(): the samples go to resultsChan, an unsupported shape
\* goes to errorsChan; then the task ends (defer wg.Done()).
TaskShape(m) ==
    /\ tpc[m] = "shape"
    /\ LET out == Task(TaskCfg(m).Name, tresp[m]) IN
         IF out.chan \in closed
         THEN /\ tpc' = [tpc EXCEPT ![m] = "panic"]
              /\ UNCHANGED <<errorsChan, resultsChan, tsent, tlog, wg>>
         ELSE /\ IF out.chan = "errors"
                 THEN /\ Len(errorsChan) < ChanCap
                      /\ errorsChan' = Append(errorsChan, out.error)
                      /\ UNCHANGED resultsChan
                 ELSE /\ Len(resultsChan) < ChanCap
                      /\ resultsChan' = Append(resultsChan, out.results)
                      /\ UNCHANGED errorsChan
              /\ tsent' = [tsent EXCEPT ![m] = out.chan]
              /\ tlog' = [tlog EXCEPT ![m].sends = @ + 1]
              /\ wg' = wg - 1
              /\ tpc' = [tpc EXCEPT ![m] = "done"]
    /\ UNCHANGED <<cpc, call, launched, tresp, closerpc, warningsChan, closed,
                   allResults, allErrors, cret>>
    /\ UNCHANGED <<mainVars, driverVars, storeVars, watched, queryVars>>

\* Mutant: the closing goroutine does not wait for the tasks.
WaitGroupDone_NoWait == TRUE

\* wg.Wait() returns: every launched task has called wg.Done().
WaitGroupDone == wg = 0

CloserWait ==
    /\ closerpc = "wait"
    /\ WaitGroupDone
    /\ closerpc' = "closeResults"
    /\ UNCHANGED <<cpc, call, launched, tpc, tresp, tsent, wg, resultsChan, errorsChan,
                   warningsChan, closed, allResults, allErrors, cret>>
    /\ UNCHANGED tlog
    /\ UNCHANGED <<mainVars, driverVars, storeVars, watched, queryVars>>

\* close(resultsChan); close(errorsChan); close(warningsChan), one at a time.
CloserClose ==
    /\ closerpc \in {"closeResults", "closeErrors", "closeWarnings"}
    /\ closed' = closed \cup {IF closerpc = "closeResults" THEN "results"
                              ELSE IF closerpc = "closeErrors" THEN "errors"
                              ELSE "warnings"}
    /\ closerpc' = IF closerpc = "closeResults" THEN "closeErrors"
                   ELSE IF closerpc = "closeErrors" THEN "closeWarnings"
                   ELSE "done"
    /\ UNCHANGED <<cpc, call, launched, tpc, tresp, tsent, wg, resultsChan, errorsChan,
                   warningsChan, allResults, allErrors, cret>>
    /\ UNCHANGED tlog
    /\ UNCHANGED <<mainVars, driverVars, storeVars, watched, queryVars>>

\* for warnings := range warningsChan { fmt.Printf(...) }
RecvWarnings ==
    /\ cpc = "warnings"
    /\ IF Len(warningsChan) > 0
       THEN /\ warningsChan' = Tail(warningsChan)
            /\ UNCHANGED cpc
       ELSE /\ "warnings" \in closed
            /\ cpc' = "errors"
            /\ UNCHANGED warningsChan
    /\ UNCHANGED <<call, launched, tpc, tresp, tsent, wg, closerpc, resultsChan,
                   errorsChan, closed, allResults, allErrors, cret>>
    /\ UNCHANGED tlog
    /\ UNCHANGED <<mainVars, driverVars, storeVars, watched, queryVars>>

\* for err := range errorsChan { allErrors = append(allErrors, err) }
RecvErrors ==
    /\ cpc = "errors"
    /\ IF Len(errorsChan) > 0
       THEN /\ allErrors' = Append(allErrors, Head(errorsChan))
            /\ errorsChan' = Tail(errorsChan)
            /\ UNCHANGED cpc
       ELSE /\ "errors" \in closed
            /\ cpc' = "results"
            /\ UNCHANGED <<allErrors, errorsChan>>
    /\ UNCHANGED <<call, launched, tpc, tresp, tsent, wg, closerpc, resultsChan,
                   warningsChan, closed, allResults, cret>>
    /\ UNCHANGED tlog
    /\ UNCHANGED <<mainVars, driverVars, storeVars, watched, queryVars>>

\* for results := range resultsChan { allResults = append(allResults, results...) }
\* and, once the channel is drained and closed, the return statement.
RecvResults ==
    /\ cpc = "results"
    /\ IF Len(resultsChan) > 0
       THEN /\ allResults' = allResults \o Head(resultsChan)
            /\ resultsChan' = Tail(resultsChan)
            /\ UNCHANGED <<cpc, cret>>
       ELSE /\ "results" \in closed
            /\ cret' = CollectReturn(allResults, allErrors)
            /\ cpc' = "returned"
            /\ UNCHANGED <<allResults, resultsChan>>
    /\ UNCHANGED <<call, launched, tpc, tresp, tsent, wg, closerpc, errorsChan,
                   warningsChan, closed, allErrors>>
    /\ UNCHANGED tlog
    /\ UNCHANGED <<mainVars, driverVars, storeVars, watched, queryVars>>

\* ----------------------------------------------------------- StoreMetrics
\* The file names StoreMetrics is called with, and the sample slices.
Keys == 1..NumKeys
\* The label sets of the samples: with an apiproxy label, with none of the
\* two labels StoreMetrics looks for, with an app label only, with no label.
SampleLabels ==
    << {<<"apiproxy", ProxyNames[1]>>, <<"code", "200">>},
       {<<"code", "200">>},
       {<<"app", ProxyNames[1]>>},
       {} >>

\* The i-th sample of the v-th slice: successive samples are a day apart, an
\* hour or less before midnight UTC, and go through the label sets.
Sample(i, v) ==
    [Name |-> Metrics[((i + v) % NumMetrics) + 1].Name,
     Timestamp |-> i * HoursPerDay - 2 + ((v - 1) % 2) + 1,
     Value |-> v,
     Labels |-> SampleLabels[((i + v - 2) % Len(SampleLabels)) + 1]]

StoreInputs ==
    {[i \in 1..n |-> Sample(i, v)] : n \in 0..MaxSamples, v \in 1..NumValues}

\* filepath.Dir(filename) of key k is .../app=<KeyApp(k)>.
KeyApp(k) == ProxyNames[((k - 1) % NumProxies) + 1]

NoFile == [exists |-> FALSE, rows |-> << >>, footer |-> FALSE, codec |-> "none", rowGroupSize |-> 0]
\* os.Create: the file exists and is empty, whatever was there before.
CreatedFile == [exists |-> TRUE, rows |-> << >>, footer |-> FALSE, codec |-> "none", rowGroupSize |-> 0]
\* The storage section of the configuration held by the ParquetStorage:
\* the default one, and one that asks for gzip and 64MB row groups.
StorageConfigs ==
    {[Compression |-> "snappy", RowGroupSize |-> 128 * 1024 * 1024],
     [Compression |-> "gzip", RowGroupSize |-> 64 * 1024 * 1024]}
NoStorageConfig == [Compression |-> "snappy", RowGroupSize |-> 128 * 1024 * 1024]
NoStoreArgs == [metrics |-> << >>, filename |-> 1, config |-> NoStorageConfig]

\* pw.CompressionType = parquet.CompressionCodec_SNAPPY
WriterCompressionType(config) == "SNAPPY"
\* pw.RowGroupSize = 128 * 1024 * 1024
WriterRowGroupSize(config) == 128 * 1024 * 1024

\* Mutant: all labels get the first label's key.
convertLabels_OneKey(labels) ==
    {[Key |-> (CHOOSE x \in labels : TRUE)[1], Value |-> l[2]] : l \in labels}

\* convertLabels: one Label{Key, Value} per entry of the map (in the map's
\* iteration order, which is unspecified: kept as the set of the Labels).
convertLabels(labels) == {[Key |-> l[1], Value |-> l[2]] : l \in labels}

\* val, ok := metric.Labels[key]
HasLabel(labels, key) == \E l \in labels : l[1] = key
LabelValue(labels, key) == (CHOOSE l \in labels : l[1] = key)[2]

\* The apiProxy of a record: the apiproxy label, else the app label, else "".
RecordApiProxy(labels) ==
    IF HasLabel(labels, "apiproxy") THEN LabelValue(labels, "apiproxy")
    ELSE IF HasLabel(labels, "app") THEN LabelValue(labels, "app")
    ELSE ""

\* t.UnixMilli()
UnixMilli(t) == t * MillisPerHour

\* Mutant: the date in the zone one hour east of UTC.
RecordDate_Local(t) == FormatDay(t + 1)

\* metric.Timestamp.UTC().Format(time.DateOnly)
RecordDate(t) == FormatDay(t)

\* The MetricRecord written for a sample.
MetricRecord(metric) ==
    [Timestamp |-> UnixMilli(metric.Timestamp),
     MetricName |-> metric.Name,
     Value |-> metric.Value,
     ApiProxy |-> RecordApiProxy(metric.Labels),
     Labels |-> convertLabels(metric.Labels),
     Date |-> RecordDate(metric.Timestamp)]

\* end := i + batchSize; if end > len(metrics) { end = len(metrics) }
ChunkEnd(i, n) == IF i + batchSize > n THEN n ELSE i + batchSize

RECURSIVE ChunkOrder(_, _)
\* for i := 0; i < len(metrics); i += batchSize { for _, metric := range
\* metrics[i:end] }: the positions (from 1) of the samples, in the order the
\* two loops reach them from chunk start i on, n being len(metrics).
ChunkOrder(i, n) ==
    IF i >= n THEN << >>
    ELSE [k \in 1..(ChunkEnd(i, n) - i) |-> i + k] \o ChunkOrder(i + batchSize, n)

\* Mutant: only whole chunks are written.
WriteOrder_WholeChunks(n) == ChunkOrder(0, n - (n % batchSize))

\* The positions of the samples in the order StoreMetrics writes them.
WriteOrder(n) == ChunkOrder(0, n)

\* Mutant: flushing drops the buffered rows.
FlushRows_Drop(rows, buf) == rows

\* A flush of the writer appends its buffered rows to the file.
FlushRows(rows, buf) == rows \o buf

\* return: the deferred fw.Close() runs and the call's locals (the writer and
\* its buffer, the loop index, done and writeStopErr) go out of scope; kind is
\* "ok" or names the error returned.
StoreReturn(kind) ==
    /\ spc' = "returned"
    /\ sret' = kind
    /\ fwOpen' = FALSE
    /\ si' = 0
    /\ pwBuf' = << >>
    /\ finpc' = "none"
    /\ writeStopErr' = "unset"
    /\ timer' = "none"

\* store.StoreMetrics(metrics, filename) is called.  fileBefore remembers what
\* was at the key, until the call creates its own file there.
StoreCall ==
    /\ spc \in {"idle", "returned"}
    /\ \E ms \in StoreInputs, k \in Keys, config \in StorageConfigs :
         /\ sargs' = [metrics |-> ms, filename |-> k, config |-> config]
         /\ fileBefore' = files[k]
    /\ spc' = "mkdir"
    /\ sret' = "none"
    /\ firstReady' = "none"
    /\ UNCHANGED <<si, pwBuf, finpc, writeStopErr, files, fwOpen, orphans, timer>>
    /\ UNCHANGED <<mainVars, driverVars, collVars, watched, queryVars>>

\* os.MkdirAll(filepath.Dir(filename), 0755)
StoreMkdir ==
    /\ spc = "mkdir"
    /\ \E ok \in BOOLEAN :
         IF ok THEN /\ spc' = "create"
                    /\ UNCHANGED <<sret, fwOpen, si, pwBuf, finpc, writeStopErr, fileBefore, timer>>
         ELSE /\ StoreReturn("mkdir")
              /\ UNCHANGED fileBefore
    /\ UNCHANGED <<sargs, files, orphans, firstReady>>
    /\ UNCHANGED <<mainVars, driverVars, collVars, watched, queryVars>>

\* local.NewLocalFileWriter(filename); defer fw.Close()
StoreCreate ==
    /\ spc = "create"
    /\ \E ok \in BOOLEAN :
         IF ok THEN /\ spc' = "newwriter"
                    /\ files' = [files EXCEPT ![sargs.filename] = CreatedFile]
                    /\ fwOpen' = TRUE
                    /\ fileBefore' = NoFile
                    /\ UNCHANGED <<sret, si, pwBuf, finpc, writeStopErr, timer>>
         ELSE /\ StoreReturn("create")
              /\ UNCHANGED <<files, fileBefore>>
    /\ UNCHANGED <<sargs, orphans, firstReady>>
    /\ UNCHANGED <<mainVars, driverVars, collVars, watched, queryVars>>

\* writer.NewParquetWriter(fw, new(MetricRecord), ...) and its configuration
StoreNewWriter ==
    /\ spc = "newwriter"
    /\ \E ok \in BOOLEAN :
         IF ok THEN /\ spc' = "write"
                    /\ files' = [files EXCEPT
                                    ![sargs.filename].codec = WriterCompressionType(sargs.config),
                                    ![sargs.filename].rowGroupSize = WriterRowGroupSize(sargs.config)]
                    /\ UNCHANGED <<sret, fwOpen, si, pwBuf, finpc, writeStopErr, fileBefore, timer>>
         ELSE /\ StoreReturn("newwriter")
              /\ UNCHANGED <<files, fileBefore>>
    /\ UNCHANGED <<sargs, orphans, firstReady>>
    /\ UNCHANGED <<mainVars, driverVars, collVars, watched, queryVars>>

\* pw.Write(record) for the next sample: the record is buffered, and the
\* writer may flush its buffer to the file when a row group is full.
StoreWrite ==
    /\ spc = "write"
    /\ si < Len(WriteOrder(Len(sargs.metrics)))
    /\ \E ok \in BOOLEAN, flush \in BOOLEAN :
         IF ok
         THEN /\ si' = si + 1
              /\ LET next == WriteOrder(Len(sargs.metrics))[si + 1]
                     buf == Append(pwBuf, MetricRecord(sargs.metrics[next])) IN
                   IF flush
                   THEN /\ files' = [files EXCEPT ![sargs.filename].rows = FlushRows(@, buf)]
                        /\ pwBuf' = << >>
                   ELSE /\ pwBuf' = buf
                        /\ UNCHANGED files
              /\ UNCHANGED <<spc, sret, fwOpen, finpc, writeStopErr, fileBefore, timer>>
         ELSE /\ StoreReturn("write")
              /\ UNCHANGED <<files, fileBefore>>
    /\ UNCHANGED <<sargs, orphans, firstReady>>
    /\ UNCHANGED <<mainVars, driverVars, collVars, watched, queryVars>>

\* All records written: go func() { defer close(done); writeStopErr = pw.WriteStop() }()
\* is started and the select statement is entered, which evaluates
\* time.After(s.config.WriteStopTimeout): the timer is running.
StoreStartFinalize ==
    /\ spc = "write"
    /\ si = Len(WriteOrder(Len(sargs.metrics)))
    /\ finpc' = "flush"
    /\ timer' = "running"
    /\ spc' = "select"
    /\ UNCHANGED <<sargs, si, pwBuf, files, fwOpen, writeStopErr, orphans, sret,
                   fileBefore, firstReady>>
    /\ UNCHANGED <<mainVars, driverVars, collVars, watched, queryVars>>

\* The finalization goroutine of the call in progress is running.
Finalizing == spc \in {"select", "blocked"}

\* firstReady after one of the two channels of the select became ready:
\* it keeps the first of them.
FirstReady(ch) == IF firstReady = "none" THEN ch ELSE firstReady

\* pw.WriteStop(), first half: the buffered rows are flushed to the file.
\* On an error WriteStop returns it and done is closed.
FinFlush ==
    /\ Finalizing
    /\ finpc = "flush"
    /\ \E ok \in BOOLEAN :
         IF ok
         THEN /\ files' = [files EXCEPT ![sargs.filename].rows = FlushRows(@, pwBuf)]
              /\ pwBuf' = << >>
              /\ finpc' = "footer"
              /\ UNCHANGED <<writeStopErr, firstReady>>
         ELSE /\ writeStopErr' = "err"
              /\ finpc' = "done"
              /\ firstReady' = FirstReady("done")
              /\ UNCHANGED <<files, pwBuf>>
    /\ UNCHANGED <<spc, sargs, si, fwOpen, orphans, sret, fileBefore, timer>>
    /\ UNCHANGED <<mainVars, driverVars, collVars, watched, queryVars>>

\* pw.WriteStop(), second half: the footer is written; done is closed.
FinFooter ==
    /\ Finalizing
    /\ finpc = "footer"
    /\ \E ok \in BOOLEAN :
         IF ok
         THEN /\ files' = [files EXCEPT ![sargs.filename].footer = TRUE]
              /\ writeStopErr' = "nil"
         ELSE /\ writeStopErr' = "err"
              /\ UNCHANGED files
    /\ finpc' = "done"
    /\ firstReady' = FirstReady("done")
    /\ UNCHANGED <<spc, sargs, si, pwBuf, fwOpen, orphans, sret, fileBefore, timer>>
    /\ UNCHANGED <<mainVars, driverVars, collVars, watched, queryVars>>

\* The runtime timer of time.After fires: WriteStopTimeout has elapsed.
TimerFire ==
    /\ Finalizing
    /\ timer = "running"
    /\ timer' = "fired"
    /\ firstReady' = FirstReady("timer")
    /\ UNCHANGED <<spc, sargs, si, pwBuf, files, fwOpen, finpc, writeStopErr, orphans,
                   sret, fileBefore>>
    /\ UNCHANGED <<mainVars, driverVars, collVars, watched, queryVars>>

\* Mutant: the select has no timeout case (WriteStop is simply waited for).
TimeoutCaseReady_None == FALSE

\* The case <-time.After(...) of the select can proceed.
TimeoutCaseReady == timer = "fired"

\* The case <-done of the select can proceed.
DoneCaseReady == finpc = "done"

\* select finds neither case ready and parks the caller on both channels.
SelectBlock ==
    /\ spc = "select"
    /\ ~DoneCaseReady
    /\ ~TimeoutCaseReady
    /\ spc' = "blocked"
    /\ UNCHANGED <<sargs, si, pwBuf, files, fwOpen, finpc, writeStopErr, orphans, sret,
                   fileBefore, timer, firstReady>>
    /\ UNCHANGED <<mainVars, driverVars, collVars, watched, queryVars>>

\* case <-done: return writeStopErr.  Taken when select finds done closed
\* (whatever the timer did), or when the parked caller is woken by the close.
SelectDone ==
    /\ DoneCaseReady
    /\ \/ spc = "select"
       \/ spc = "blocked" /\ firstReady = "done"
    /\ StoreReturn(IF writeStopErr = "nil" THEN "ok" ELSE "writestop")
    /\ UNCHANGED <<sargs, files, orphans, fileBefore, firstReady>>
    /\ UNCHANGED <<mainVars, driverVars, collVars, watched, queryVars>>

\* case <-time.After(s.config.WriteStopTimeout): return the timeout error.
\* Taken when select finds the timer fired (whatever the finalization did),
\* or when the parked caller is woken by the timer.  The finalization
\* goroutine, if it has not ended, is left behind; the deferred fw.Close()
\* makes its further writes fail.
SelectTimeout ==
    /\ TimeoutCaseReady
    /\ \/ spc = "select"
       \/ spc = "blocked" /\ firstReady = "timer"
    /\ StoreReturn("timeout")
    /\ orphans' = IF finpc = "done" THEN orphans ELSE orphans \cup {sargs.filename}
    /\ UNCHANGED <<sargs, files, fileBefore, firstReady>>
    /\ UNCHANGED <<mainVars, driverVars, collVars, watched, queryVars>>

\* The caller of StoreMetrics, in its select statement.
SelectStep == SelectBlock \/ SelectDone \/ SelectTimeout

\* A finalization goroutine left behind by a timed-out call ends.
OrphanEnd ==
    /\ \E k \in orphans : orphans' = orphans \ {k}
    /\ UNCHANGED <<spc, sargs, si, pwBuf, files, fwOpen, finpc, writeStopErr, sret,
                   fileBefore, timer, firstReady>>
    /\ UNCHANGED <<mainVars, driverVars, collVars, watched, queryVars>>

\* ------------------------------------------------------ one query goroutine
QueryTargets == {ProxyNames[i] : i \in 1..NumProxies}

\* A query template of the configuration is a sequence of pieces of text;
\* the piece "%s" is the verb fmt.Sprintf substitutes. TemplateWith(k) has k
\* verbs, each inside the quotes of a label matcher, as in
\* sum(increase(istio_requests_total{app="%s"}[1h])) by (app).
RECURSIVE Matchers(_)
Matchers(k) ==
    IF k = 0 THEN << >>
    ELSE Matchers(k - 1) \o <<"label=\"", "%s", "\",">>
TemplateWith(k) == <<"sum(increase(x{">> \o Matchers(k) \o <<"}[1h])) by (app)">>

\* The templates explored: none to MaxPlaceholders verbs in label matchers,
\* and one whose only verb is the first piece.
Templates == {TemplateWith(k) : k \in 0..MaxPlaceholders} \cup {<<"%s", "_requests_total">>}

RECURSIVE SprintfFrom(_, _, _)
\* fmt.Sprintf(format, args...) from piece i on: a verb takes the next
\* operand, or prints %!s(MISSING) when none is left; operands left over at
\* the end are printed as %!(EXTRA string=...).
SprintfFrom(format, i, args) ==
    IF i > Len(format)
    THEN IF args = << >> THEN << >> ELSE <<"%!(EXTRA string=">> \o args \o <<")">>
    ELSE IF format[i] = "%s"
         THEN IF args = << >>
              THEN <<"%!s(MISSING)">> \o SprintfFrom(format, i + 1, args)
              ELSE <<Head(args)>> \o SprintfFrom(format, i + 1, Tail(args))
         ELSE <<format[i]>> \o SprintfFrom(format, i + 1, args)

Sprintf(format, args) == SprintfFrom(format, 1, args)

\* Mutant: the name is appended to the template.
replaceAPIProxyInQuery_Append(query, apiProxy) == query \o <<apiProxy>>

\* replaceAPIProxyInQuery: return fmt.Sprintf(query, apiProxy)
replaceAPIProxyInQuery(query, apiProxy) == Sprintf(query, <<apiProxy>>)

\* The username and password of the configuration ("" when not configured).
PrometheusConfigs == {[Username |-> u, Password |-> p] : u \in {"", "user"}, p \in {"", "secret"}}

\* NewClient: with a username and a password the client is given
\* api.DefaultRoundTripper; without them api.NewClient falls back to the same
\* api.DefaultRoundTripper.
NewClient(pc) ==
    [config |-> pc,
     RoundTripper |-> IF pc.Username # "" /\ pc.Password # ""
                      THEN "DefaultRoundTripper" ELSE "DefaultRoundTripper"]

NoCredentials == << >>
\* The credentials a request of the client carries: api.DefaultRoundTripper
\* is a plain transport, it adds no Authorization header.
Authorization(client) ==
    IF client.RoundTripper = "DefaultRoundTripper" THEN NoCredentials
    ELSE <<client.config.Username, client.config.Password>>

\* The backend parses the query before evaluating it: text after the end of
\* the expression is rejected, text inside the quotes of a matcher is not.
BackendRejects(query) == \E i \in 1..Len(query) : query[i] = "%!(EXTRA string="

\* What the backend may answer to the query of a task in the given mode.
QueryAnswers(mode, query) ==
    LET all == IF mode = "range" THEN RangeResponses(CallRange) ELSE InstantResponses(CallNow)
    IN  IF BackendRejects(query) THEN {r \in all : r.kind = "error"} ELSE all

NoQueryTask ==
    [mode |-> "none", name |-> 0, template |-> << >>, apiProxy |-> "", client |-> NewClient([Username |-> "", Password |-> ""]),
     query |-> << >>, auth |-> NoCredentials, sent |-> SendResults(<< >>)]

\* go func(cfg config.MetricConfig) of a CollectMetrics or CollectMetricsRange
\* call for apiProxy on a client made by NewClient starts:
\* query := replaceAPIProxyInQuery(cfg.Query, apiProxy)
QueryBuild ==
    /\ qpc \in {"idle", "done"}
    /\ \E mode \in {"instant", "range"}, m \in 1..NumMetrics, t \in Templates,
          apiProxy \in QueryTargets, pc \in PrometheusConfigs :
         qtask' = [mode |-> mode, name |-> Metrics[m].Name, template |-> t, apiProxy |-> apiProxy,
                   client |-> NewClient(pc),
                   query |-> replaceAPIProxyInQuery(t, apiProxy),
                   auth |-> NoCredentials, sent |-> SendResults(<< >>)]
    /\ qpc' = "built"
    /\ UNCHANGED <<mainVars, driverVars, collVars, storeVars, watched>>

\* c.api.Query(queryCtx, query, time.Now()) or c.api.QueryRange(queryCtx,
\* query, r): the request goes out through the client's round tripper, the
\* goroutine sends an error or the results of the answer.
QueryCall ==
    /\ qpc = "built"
    /\ \E r \in QueryAnswers(qtask.mode, qtask.query) :
         qtask' = [qtask EXCEPT !.auth = Authorization(qtask.client),
                                !.sent = IF qtask.mode = "range"
                                         THEN RangeTask(qtask.name, r)
                                         ELSE InstantTask(qtask.name, r)]
    /\ qpc' = "done"
    /\ UNCHANGED <<mainVars, driverVars, collVars, storeVars, watched>>

\* ---------------------------------------------------------- specifications
Init ==
    /\ mainpc = "start"
    /\ cfg = NoCfg
    /\ supplied = FALSE
    /\ startupErr = "none"
    /\ tickerC = 0
    /\ tickerStopped = FALSE
    /\ sigCh = 0
    /\ sigDelivered = FALSE
    /\ activeRuns = 0
    /\ dpc = "idle"
    /\ fileDate = ZeroTime
    /\ proxyIdx = 1
    /\ batchDuration = 0
    /\ batchStart = ZeroTime
    /\ batchEnd = ZeroTime
    /\ metrics = << >>
    /\ err = << >>
    /\ sinkArgs = NoSinkArgs
    /\ collectLog = << >>
    /\ sinkActive = 0
    /\ runFailed = FALSE
    /\ cpc = "idle"
    /\ call = NoCall
    /\ launched = 0
    /\ tpc = [m \in 1..NumMetrics |-> "none"]
    /\ tresp = [m \in 1..NumMetrics |-> NoResp]
    /\ tsent = [m \in 1..NumMetrics |-> "none"]
    /\ tlog = [m \in 1..NumMetrics |-> NoTaskLog]
    /\ wg = 0
    /\ closerpc = "none"
    /\ resultsChan = << >>
    /\ errorsChan = << >>
    /\ warningsChan = << >>
    /\ closed = {}
    /\ allResults = << >>
    /\ allErrors = << >>
    /\ cret = CollectReturn(<< >>, << >>)
    /\ spc = "idle"
    /\ sargs = NoStoreArgs
    /\ si = 0
    /\ pwBuf = << >>
    /\ files = [k \in Keys |-> NoFile]
    /\ fwOpen = FALSE
    /\ finpc = "none"
    /\ writeStopErr = "unset"
    /\ orphans = {}
    /\ sret = "none"
    /\ fileBefore = NoFile
    /\ timer = "none"
    /\ firstReady = "none"
    /\ watched = NoWatch
    /\ qpc = "idle"
    /\ qtask = NoQueryTask

Next ==
    \/ Startup
    \/ TickFire
    \/ SignalDeliver
    \/ SelectTick
    \/ SelectSignal
    \/ ForProxyDone
    \/ ForProxyRange
    \/ ForProxyInstant
    \/ ForBatchCollect
    \/ ForBatchDone
    \/ RangeCollectReturn
    \/ RangeStoreReturn
    \/ InstantCollectReturn
    \/ InstantStoreReturn

Spec == Init /\ [][Next]_vars

\* Spec, with one Sink call of a range-mode run remembered for comparison
\* with the Sink calls of the runs after it.
KeyNext == Next \/ WatchKey

KeySpec == Init /\ [][KeyNext]_vars

CollectNext ==
    \/ CollectCall
    \/ Launch
    \/ LaunchCloser
    \/ \E m \in 1..NumMetrics : TaskQuery(m)
    \/ \E m \in 1..NumMetrics : TaskWarn(m)
    \/ \E m \in 1..NumMetrics : TaskShape(m)
    \/ CloserWait
    \/ CloserClose
    \/ RecvWarnings
    \/ RecvErrors
    \/ RecvResults

CollectSpec == Init /\ [][CollectNext]_vars

StoreNext ==
    \/ StoreCall
    \/ StoreMkdir
    \/ StoreCreate
    \/ StoreNewWriter
    \/ StoreWrite
    \/ StoreStartFinalize
    \/ FinFlush
    \/ FinFooter
    \/ TimerFire
    \/ SelectBlock
    \/ SelectDone
    \/ SelectTimeout
    \/ OrphanEnd

StoreSpec == Init /\ [][StoreNext]_vars

\* The caller of StoreMetrics is scheduled while it can take a step of its
\* select, and the runtime fires a running timer.  Nothing is assumed about
\* the finalization goroutine: WriteStop may never return.
StoreFairSpec == StoreSpec /\ WF_vars(SelectStep) /\ WF_vars(TimerFire)

\* Every call made by a run returns, so the run goes on to its end; and the
\* select of main, which picks at random among its ready cases, does not
\* pass over a ready signal case forever.
FairSpec == Spec /\ WF_vars(DriverStep) /\ SF_vars(SelectSignal)

\* Every call made by a run returns; nothing is assumed about signals.
RunFairSpec == Spec /\ WF_vars(DriverStep)

QueryNext ==
    \/ QueryBuild
    \/ QueryCall

\* One query goroutine, for every template, target and client configuration.
QuerySpec == Init /\ [][QueryNext]_vars

\* A step of the call in progress: of the caller, of a task or of the
\* closing goroutine.
CollectStep ==
    \/ Launch
    \/ LaunchCloser
    \/ \E m \in 1..NumMetrics : TaskQuery(m) \/ TaskWarn(m) \/ TaskShape(m)
    \/ CloserWait
    \/ CloserClose
    \/ RecvWarnings
    \/ RecvErrors
    \/ RecvResults

\* The calls for the first target: apiProxy only fills the query text, the
\* goroutines and channels of a call are the same for every target.
CollectFirst == CollectCallFor({1})

CollectFairNext == CollectFirst \/ CollectStep

\* The goroutines of a call keep being scheduled, and every query returns
\* (its context has the configured timeout).
CollectFairSpec == Init /\ [][CollectFairNext]_vars /\ WF_vars(CollectStep)

\* ------------------------------------------------------------ properties
\* The time ranges of the collect calls made so far in this run for proxy p.
RECURSIVE RangesOf(_, _)
RangesOf(log, p) ==
    IF log = << >> THEN << >>
    ELSE IF Head(log).apiProxy = p
         THEN <<Head(log).timeRange>> \o RangesOf(Tail(log), p)
         ELSE RangesOf(Tail(log), p)

\* The batch loop of proxy number i has ended in this run.
ProxyDone(i) == mainpc # "start" /\ mainpc # "fatal" /\ proxyIdx > i

RangeRun == mainpc \in {"run", "select", "exited"} /\ UseBatches(cfg)

\* C1: for a requested range with start <= end, the batches a range-mode run
\* iterates over start at the requested start, each starts where the previous
\* one ended, each is non-empty and at most 6h long, and once the loop of a
\* proxy has ended they end at the requested end (no batch at all only when
\* start = end); a 24h range gives 4 batches of exactly 6h.
C1_BatchPartition ==
    (RangeRun /\ cfg.StartTime <= cfg.EndTime) =>
        \A i \in 1..NumProxies :
            LET b == RangesOf(collectLog, APIProxies[i]) IN
            /\ Len(b) > 0 => b[1].Start = cfg.StartTime
            /\ \A k \in 1..Len(b) :
                 /\ b[k].Start < b[k].End
                 /\ b[k].End - b[k].Start <= BatchHours
                 /\ b[k].End <= cfg.EndTime
                 /\ k > 1 => b[k].Start = b[k - 1].End
            /\ ProxyDone(i) =>
                 /\ Len(b) = 0 <=> cfg.StartTime = cfg.EndTime
                 /\ Len(b) > 0 => b[Len(b)].End = cfg.EndTime
                 /\ cfg.EndTime - cfg.StartTime = 4 * BatchHours =>
                        /\ Len(b) = 4
                        /\ \A k \in 1..4 : b[k].End - b[k].Start = BatchHours

\* A proxy's loop has ended after three or more batches, the last one clipped.
C1_Witness ==
    /\ RangeRun
    /\ ProxyDone(1)
    /\ LET b == RangesOf(collectLog, APIProxies[1]) IN
         /\ Len(b) >= 3
         /\ b[Len(b)].End - b[Len(b)].Start < BatchHours

\* The batches the specification plans for [s, e): consecutive 6h windows
\* from s, the last clipped to e.
PlannedBatches(s, e, step) ==
    IF e <= s THEN << >>
    ELSE [k \in 1..((e - s + BatchHours - 1) \div BatchHours) |->
            [Start |-> s + (k - 1) * BatchHours,
             End |-> Min(s + k * BatchHours, e),
             Step |-> step]]

\* The units of a run for the proxies i.. : per proxy, one per planned batch
\* in range mode and one without a time range in instant mode.
RECURSIVE ExpectedUnits(_, _)
ExpectedUnits(c, i) ==
    IF i > NumProxies THEN << >>
    ELSE (IF UseBatches(c)
          THEN LET pb == PlannedBatches(c.StartTime, c.EndTime, c.RangeStep)
               IN  [k \in 1..Len(pb) |-> [apiProxy |-> APIProxies[i], timeRange |-> pb[k]]]
          ELSE <<[apiProxy |-> APIProxies[i], timeRange |-> NoRange]>>)
         \o ExpectedUnits(c, i + 1)

IsPrefix(a, b) == Len(a) <= Len(b) /\ \A k \in 1..Len(a) : a[k] = b[k]

RunReturned == mainpc \in {"select", "exited"}

\* C4: in every run the collector is invoked exactly once for every proxy
\* (instant mode) or (proxy, planned batch) pair (range mode), in order,
\* whatever the earlier units did: the calls made so far are a prefix of the
\* expected units, and all of them have been made when the run returns.
C4_EveryUnitOnce ==
    mainpc \in {"run", "select", "exited"} =>
        /\ IsPrefix(collectLog, ExpectedUnits(cfg, 1))
        /\ RunReturned => collectLog = ExpectedUnits(cfg, 1)

\* A run with a failed unit (collect error, empty result or Sink error) has
\* returned after four or more collector calls.
C4_Witness ==
    /\ RunReturned
    /\ runFailed
    /\ Len(collectLog) >= 4

\* The output key of the unit the latest collector call belongs to.
UnitKey ==
    LET u == collectLog[Len(collectLog)] IN
    IF u.timeRange = NoRange
    THEN [day |-> fileDate \div HoursPerDay, app |-> u.apiProxy, name |-> << >>]
    ELSE [day |-> u.timeRange.Start \div HoursPerDay, app |-> u.apiProxy,
          name |-> <<u.timeRange.Start % HoursPerDay, u.timeRange.End % HoursPerDay>>]

\* C5: while a Sink call is in progress, the unit's collector call returned
\* no error, the Sink got exactly the samples that call returned and the key
\* of that unit; outside a Sink call nothing is handed to the Sink.
C5_SinkOnlyAfterSuccess ==
    /\ sinkActive > 0 =>
         /\ dpc \in {"range_store", "instant_store"}
         /\ err = << >>
         /\ sinkArgs.metrics = metrics
         /\ Len(collectLog) > 0
         /\ sinkArgs.filename = UnitKey
    /\ sinkActive = 0 => sinkArgs = NoSinkArgs

\* A batch's samples are being stored.
C5_Witness ==
    /\ dpc = "range_store"
    /\ sinkActive = 1
    /\ Len(sinkArgs.metrics) > 0
    /\ proxyIdx = 2

\* C6: the collector calls of a run are made proxy by proxy in configuration
\* order and, for one proxy, in strictly increasing batch start; no Sink call
\* is in progress while a collector call is.
C6_Order ==
    /\ \A k \in 2..Len(collectLog) :
         \/ collectLog[k - 1].apiProxy < collectLog[k].apiProxy
         \/ /\ collectLog[k - 1].apiProxy = collectLog[k].apiProxy
            /\ collectLog[k - 1].timeRange.Start < collectLog[k].timeRange.Start
            /\ collectLog[k].timeRange # NoRange
    /\ dpc \in {"range_collect", "instant_collect"} => sinkActive = 0
    /\ sinkActive <= 1

\* The second proxy's second batch is being collected after a stored first one.
C6_Witness ==
    /\ dpc = "range_collect"
    /\ proxyIdx = 2
    /\ Len(RangesOf(collectLog, APIProxies[2])) >= 2
    /\ ~runFailed

\* C7: once a termination signal has been delivered, no collection run starts.
C7_NoRunAfterSignal ==
    [][sigDelivered => ~(mainpc # "run" /\ mainpc' = "run")]_vars

\* C8: at most one collection run is active at any time, and none while main
\* waits in its select.
C8_OneRunAtATime ==
    /\ activeRuns <= 1
    /\ mainpc \in {"select", "exited", "start", "fatal"} => activeRuns = 0
    /\ mainpc = "run" => activeRuns = 1

\* A tick is buffered while a run is in the middle of a Sink call.
C8_Witness ==
    /\ mainpc = "run"
    /\ tickerC = 1
    /\ dpc = "range_store"
    /\ activeRuns = 1

\* C9: after a termination signal has been delivered (and every run
\* terminates), the process eventually leaves the main loop and exits.
C9_ExitsAfterSignal == sigDelivered ~> (mainpc = "exited")

\* The process has exited although a tick was still buffered.
C9_Witness ==
    /\ mainpc = "exited"
    /\ sigDelivered
    /\ tickerC = 1
    /\ tickerStopped

\* The tasks of the current call that sent an error.
FailedTasks == {m \in 1..call.n : tsent[m] = "errors"}

\* C2: when any per-metric query of a collect call fails, the call returns an
\* error and no samples, and the error names every failing metric (each once).
C2_AggregateFailure ==
    cpc = "returned" =>
        /\ FailedTasks # {} =>
             /\ cret.metrics = << >>
             /\ Len(cret.err) = Cardinality(FailedTasks)
             /\ {cret.err[i].metric : i \in 1..Len(cret.err)} =
                    {Metrics[m].Name : m \in FailedTasks}
        /\ FailedTasks = {} => cret.err = << >>

\* A call has returned after one task failed and another delivered samples.
C2_Witness ==
    /\ cpc = "returned"
    /\ call.n = 2
    /\ tsent[1] = "errors"
    /\ tsent[2] = "results"
    /\ Len(tresp[2].points) > 0
    /\ Len(cret.err) = 1

\* C3: a collect call gets past its first receive loop, and so returns, only
\* after every one of its tasks has ended; when it has returned the closing
\* goroutine has ended too, and no task ever finds a channel closed.
C3_JoinBeforeReturn ==
    /\ cpc \in {"errors", "results", "returned"} =>
         \A m \in 1..call.n : tpc[m] = "done"
    /\ cpc = "returned" => closerpc = "done"
    /\ \A m \in 1..NumMetrics : tpc[m] # "panic"

\* A task has failed and ended while another one is still querying: the
\* caller is still waiting.
C3_Witness ==
    /\ cpc = "warnings"
    /\ call.n = 2
    /\ tpc[1] = "done"
    /\ tsent[1] = "errors"
    /\ tpc[2] = "query"

\* No StoreMetrics call is in progress on key k.
KeyQuiet(k) == spc \in {"idle", "returned"} \/ sargs.filename # k

IsPrefixOf(a, b) == Len(a) <= Len(b) /\ \A i \in 1..Len(a) : a[i] = b[i]

\* The rows a call storing ms has to leave in its file.
RowsOf(ms) == [i \in 1..Len(ms) |-> MetricRecord(ms[i])]

\* StoreMetrics has returned kind from a call for key k.
Returned(k, kind) == spc = "returned" /\ sargs.filename = k /\ sret = kind

C11_ResultByFirstEvent ==
    (spc = "returned" /\ sret \in {"ok", "writestop", "timeout"}) =>
        (sret = "timeout" <=> firstReady = "timer")

\* C11 as amended: once all records are written StoreMetrics always returns,
\* whatever the finalization does.  It returns the timeout error only after
\* WriteStopTimeout has elapsed and the finalization result only after
\* finalization has completed; a caller that was parked in its select
\* returns what happened first; when finalization has completed and the
\* timeout has elapsed by the time the select is evaluated, either may be
\* returned.
C11_Amended ==
    /\ [][(Finalizing /\ spc' = "returned") =>
            /\ sret' = "timeout" => timer = "fired"
            /\ sret' # "timeout" =>
                 /\ finpc = "done"
                 /\ sret' = (IF writeStopErr = "nil" THEN "ok" ELSE "writestop")
            /\ spc = "blocked" => (sret' = "timeout" <=> firstReady = "timer")]_vars
    /\ Finalizing ~> (spc = "returned")

\* A call has returned the timeout error while its finalization had not
\* completed: the timer woke the parked caller.
C11_Witness ==
    /\ spc = "returned"
    /\ sret = "timeout"
    /\ firstReady = "timer"
    /\ sargs.filename \in orphans
    /\ Len(sargs.metrics) > 0

\* The StoreMetrics call in progress has its file at key k open: it is
\* writing records or finalizing.
CallWorksOn(k) ==
    /\ sargs.filename = k
    /\ spc \in {"newwriter", "write", "select", "blocked"}

\* The Sink activities on the file at key k: the call in progress there, and
\* a finalization left running by a timed-out call.
SinkActivities(k) ==
    (IF CallWorksOn(k) THEN 1 ELSE 0) + (IF k \in orphans THEN 1 ELSE 0)

\* C12: at every moment and for each output key, at most one Sink activity
\* (record writing or finalization) is operating on the file at that key.
C12_OneActivityPerKey == \A k \in Keys : SinkActivities(k) <= 1

\* The file name the run builds for the unit u of its log.
UnitFilename(u) ==
    IF u.timeRange = NoRange
    THEN InstantFilename(fileDate, u.apiProxy)
    ELSE BatchFilename(u.apiProxy, u.timeRange.Start, u.timeRange.End)

C14_SameKeysEveryRun ==
    (watched.set /\ dpc = "range_store") =>
        LET u == collectLog[Len(collectLog)] IN
        /\ u = watched.unit <=> sinkArgs.filename = watched.key
        /\ \E k \in 1..Len(ExpectedUnits(cfg, 1)) :
             /\ ExpectedUnits(cfg, 1)[k] = u
             /\ sinkArgs.filename =
                  [day |-> u.timeRange.Start \div HoursPerDay, app |-> u.apiProxy,
                   name |-> <<u.timeRange.Start % HoursPerDay, u.timeRange.End % HoursPerDay>>]

\* A later run stores the remembered unit again, under the remembered key.
C14_Witness ==
    /\ watched.set
    /\ watched.rerun
    /\ dpc = "range_store"
    /\ collectLog[Len(collectLog)] = watched.unit
    /\ sinkArgs.filename = watched.key
    /\ Len(collectLog) >= 2

\* C15: in instant mode every query result that is not vector-shaped (a
\* matrix or a scalar) makes its task fail with an unsupported-result-shape
\* error, so the collect call fails and returns no samples.
C15_InstantOnlyVector ==
    (cpc = "returned" /\ call.mode = "instant") =>
        \A m \in 1..call.n :
            tresp[m].kind \in {"matrix", "scalar"} =>
                /\ tsent[m] = "errors"
                /\ cret.metrics = << >>
                /\ \E i \in 1..Len(cret.err) :
                     cret.err[i] = [metric |-> Metrics[m].Name, what |-> "unsupported"]

\* C16: in range mode every query result that is not matrix-shaped makes its
\* task fail with an unsupported-result-shape error, which is handled like a
\* query failure: it is one of the errors of the failed call, the call
\* returns no samples, and the Driver does not store the unit.
C16_RangeOnlyMatrix ==
    (cpc = "returned" /\ call.mode = "range") =>
        \A m \in 1..call.n :
            tresp[m].kind \in {"vector", "scalar"} =>
                /\ tsent[m] = "errors"
                /\ cret.metrics = << >>
                /\ \E i \in 1..Len(cret.err) :
                     cret.err[i] = [metric |-> Metrics[m].Name, what |-> "unsupported"]
                /\ ~RangeStores(cret)

\* A range call has returned after one task got a vector and the other a
\* matrix with points.
C16_Witness ==
    /\ cpc = "returned"
    /\ call.mode = "range"
    /\ call.n = 2
    /\ tresp[1].kind = "vector"
    /\ tresp[2].kind = "matrix"
    /\ Len(tresp[2].points) > 0
    /\ tsent[2] = "results"
    /\ Len(cret.err) = 1

\* C17: a collect call with N configured metrics starts exactly N tasks, the
\* m-th for the m-th metric: it queries for that metric, for the target of
\* the call and (in range mode) the time range of the call, and the error it
\* sends names that metric, the samples it sends carry that metric's name.
\* A task that has ended has sent exactly one value, an error or a sample
\* sequence; a task still running has sent none.
C17_OneTaskPerMetric ==
    /\ cpc \in {"warnings", "errors", "results", "returned"} =>
         /\ launched = call.n
         /\ \A m \in 1..NumMetrics : (tpc[m] # "none") <=> (m <= call.n)
    /\ \A m \in 1..NumMetrics :
         /\ tlog[m].queried =>
              /\ tlog[m].name = Metrics[m].Name
              /\ tlog[m].apiProxy = call.apiProxy
              /\ tlog[m].timeRange = call.timeRange
         /\ tpc[m] = "done" =>
              /\ tlog[m].queried
              /\ tlog[m].sends = 1
              /\ tsent[m] \in {"errors", "results"}
         /\ tpc[m] \in {"none", "query", "warn", "shape"} =>
              /\ tlog[m].sends = 0
              /\ tsent[m] = "none"
    /\ \A i \in 1..Len(errorsChan) : \E m \in 1..call.n :
         /\ tsent[m] = "errors"
         /\ errorsChan[i].metric = Metrics[m].Name
    /\ \A i \in 1..Len(resultsChan) : \E m \in 1..call.n :
         /\ tsent[m] = "results"
         /\ \A j \in 1..Len(resultsChan[i]) : resultsChan[i][j].Name = Metrics[m].Name
    /\ Len(errorsChan) + Len(resultsChan) <= Cardinality({m \in 1..call.n : tpc[m] = "done"})

\* Both tasks of a range call have ended, the first with samples and the
\* second with an error, and the caller has not received anything yet.
C17_Witness ==
    /\ call.mode = "range"
    /\ call.n = 2
    /\ tpc[1] = "done"
    /\ tpc[2] = "done"
    /\ Len(resultsChan) = 1
    /\ Len(resultsChan[1]) > 0
    /\ Len(errorsChan) = 1
    /\ tlog[1].sends = 1
    /\ tlog[2].sends = 1

\* The samples of metric name in a returned sequence, in their order there.
SamplesOf(name, samples) == SelectSeq(samples, LAMBDA x : x.Name = name)

\* C18: when every query of a collect call succeeds, the call returns no
\* error and exactly the samples of all metrics: for every metric, its
\* samples in the returned sequence are, in the backend's order, one per
\* point of its answer, with the metric's name and the series' timestamp,
\* value and full label set; nothing else is returned.
C18_AllSamplesOnSuccess ==
    (cpc = "returned" /\ \A m \in 1..call.n : tsent[m] = "results") =>
        /\ cret.err = << >>
        /\ \A m \in 1..call.n :
             SamplesOf(Metrics[m].Name, cret.metrics) =
                [i \in 1..Len(tresp[m].points) |->
                    [Name |-> Metrics[m].Name,
                     Timestamp |-> tresp[m].points[i].Timestamp,
                     Value |-> tresp[m].points[i].Value,
                     Labels |-> tresp[m].points[i].Labels]]
        /\ \A i \in 1..Len(cret.metrics) :
             \E m \in 1..call.n : cret.metrics[i].Name = Metrics[m].Name

\* A range call has returned the samples of two metrics, those of the second
\* metric before those of the first (the second task sent first).
C18_Witness ==
    /\ cpc = "returned"
    /\ call.mode = "range"
    /\ call.n = 2
    /\ tsent[1] = "results"
    /\ tsent[2] = "results"
    /\ Len(tresp[1].points) > 2
    /\ Len(cret.metrics) = Len(tresp[1].points) + Len(tresp[2].points)
    /\ cret.metrics[1].Name = Metrics[2].Name
    /\ cret.metrics[1].Labels # cret.metrics[Len(tresp[2].points)].Labels

\* The requested range of the run is at most 6h long.
ShortRange == cfg.EndTime - cfg.StartTime <= BatchHours

\* The requested range of the run, as a batch.
WholeRange == [Start |-> cfg.StartTime, End |-> cfg.EndTime, Step |-> cfg.RangeStep]

\* C19 as claimed: for every requested range with start <= end that is at
\* most 6h long, a range-mode run plans exactly one batch per target, equal
\* to the requested range.
C19_OneBatchIfShort ==
    (RangeRun /\ cfg.StartTime <= cfg.EndTime /\ ShortRange) =>
        \A i \in 1..NumProxies :
            ProxyDone(i) => RangesOf(collectLog, APIProxies[i]) = <<WholeRange>>

\* C19 as amended: for every requested range with start < end that is at
\* most 6h long, a range-mode run plans exactly one batch per target, equal
\* to the requested range; for start = end it plans no batch at all and
\* makes no collector call.
C19_Amended ==
    (RangeRun /\ cfg.StartTime <= cfg.EndTime /\ ShortRange) =>
        \A i \in 1..NumProxies :
            LET b == RangesOf(collectLog, APIProxies[i]) IN
            /\ Len(b) <= 1
            /\ Len(b) = 1 => b[1] = WholeRange
            /\ cfg.StartTime = cfg.EndTime => Len(b) = 0
            /\ (ProxyDone(i) /\ cfg.StartTime < cfg.EndTime) => b = <<WholeRange>>

\* The loop of the first target has ended after its only batch, for a range
\* of exactly 6h.
C19_Witness ==
    /\ RangeRun
    /\ cfg.EndTime - cfg.StartTime = BatchHours
    /\ ProxyDone(1)
    /\ RangesOf(collectLog, APIProxies[1]) = <<WholeRange>>

\* The instant-mode calls of a whole run: one per target, without time range.
InstantUnits == [i \in 1..NumProxies |-> [apiProxy |-> APIProxies[i], timeRange |-> NoRange]]

\* C20: a run uses range mode exactly when range-query mode is enabled and
\* both a start and an end time were supplied; in every other case it uses
\* instant mode, which makes one collector call without time range per
\* target.
C20_ModeSelection ==
    mainpc \in {"run", "select", "exited"} =>
        LET rangeMode == cfg.UseRangeQuery /\ supplied IN
        /\ \A k \in 1..Len(collectLog) : (collectLog[k].timeRange # NoRange) <=> rangeMode
        /\ dpc \in {"for_batch", "range_collect", "range_store"} => rangeMode
        /\ dpc \in {"instant_collect", "instant_store"} => ~rangeMode
        /\ (~rangeMode /\ RunReturned) => collectLog = InstantUnits

\* C21: when the --range flag is given or useRangeQuery is configured, the
\* collector calls of a run are range queries, never instant ones, also when
\* no --start and --end accompany the flag.
C21_RangeFlagMeansRangeQueries ==
    (mainpc \in {"run", "select", "exited"} /\ cfg.UseRangeQuery) =>
        /\ dpc \notin {"instant_collect", "instant_store"}
        /\ \A k \in 1..Len(collectLog) : collectLog[k].timeRange # NoRange

\* The end label the documentation gives: the time of day, midnight as 24.
EndLabel24(t) == IF t % HoursPerDay = 0 THEN HoursPerDay ELSE t % HoursPerDay

\* C22: a batch's file is named metrics_<start HHMMSS>_<end HHMMSS>.parquet,
\* where a batch ending at midnight gets the end label 240000 (for a day
\* from 00:00 the names are 000000_060000, 060000_120000, 120000_180000 and
\* 180000_240000).
C22_BatchFileLabels ==
    dpc = "range_store" =>
        sinkArgs.filename.name = <<batchStart % HoursPerDay, EndLabel24(batchEnd)>>

\* C23: every output file of a range run is stored under the day partition
\* of the run's start date, also when the range spans several days.
C23_PartitionOfStartDate ==
    dpc = "range_store" => sinkArgs.filename.day = FormatDay(cfg.StartTime)

\* C24: when loading the configuration, parsing a supplied start or end
\* time, constructing the backend client or constructing the Sink fails, the
\* process has exited fatally: no collection run has started, no collector
\* call and no Sink call has been made, and none is made afterwards.
C24_FatalBeforeCollection ==
    startupErr # "none" =>
        /\ mainpc = "fatal"
        /\ activeRuns = 0
        /\ dpc = "idle"
        /\ collectLog = << >>
        /\ sinkActive = 0
        /\ sinkArgs = NoSinkArgs

C24_Witness == startupErr = "end" /\ mainpc = "fatal"

\* The username and password are both configured.
HasCredentials(pc) == pc.Username # "" /\ pc.Password # ""

\* C25: with a username and a password configured, every instant and every
\* range query sent to the backend carries them as basic-auth credentials;
\* without them no credentials are sent.
C25_CredentialsOnEveryQuery ==
    qpc = "done" =>
        qtask.auth = IF HasCredentials(qtask.client.config)
                     THEN <<qtask.client.config.Username, qtask.client.config.Password>>
                     ELSE NoCredentials

\* The number of substitution verbs of a template.
Placeholders(t) == Cardinality({i \in 1..Len(t) : t[i] = "%s"})

\* C26: for a template whose number of placeholders is not exactly one, the
\* per-metric invocation fails with an error and yields no samples (nothing
\* is collected from a query built with missing or surplus substitutions).
C26_WrongArityFails ==
    (qpc = "done" /\ Placeholders(qtask.template) # 1) =>
        /\ qtask.sent.chan = "errors"
        /\ qtask.sent.results = << >>

C28_ApiProxyIsTarget ==
    \A k \in Keys :
        \A i \in 1..Len(files[k].rows) : files[k].rows[i].ApiProxy = KeyApp(k)

\* The loops of StoreMetrics reach every one of n samples once, in input
\* order, for n below, at, just above and at two and a half times the chunk.
ChunkingCoversAll ==
    \A n \in {0, 1, batchSize - 1, batchSize, batchSize + 1, 2 * batchSize + 500} :
        WriteOrder(n) = [i \in 1..n |-> i]

\* The key/value pairs of the labels field of a row.
PairsOf(row) == {<<l.Key, l.Value>> : l \in row.Labels}

\* C29: a successful StoreMetrics call with n samples (n >= 0, a multiple of
\* the 1000-sample chunk or not) has written exactly n rows, one per sample
\* and in input order, each with the sample's metric name, value,
\* millisecond timestamp and complete label set as key/value pairs.
C29_OneRowPerSample ==
    /\ ChunkingCoversAll
    /\ \A k \in Keys :
         Returned(k, "ok") =>
            LET ms == sargs.metrics
                rows == files[k].rows
            IN  /\ Len(rows) = Len(ms)
                /\ \A i \in 1..Len(ms) :
                     /\ rows[i].MetricName = ms[i].Name
                     /\ rows[i].Value = ms[i].Value
                     /\ rows[i].Timestamp = ms[i].Timestamp * MillisPerHour
                     /\ PairsOf(rows[i]) = ms[i].Labels
                     /\ Cardinality(rows[i].Labels) = Cardinality(ms[i].Labels)

C29_Witness ==
    /\ spc = "returned"
    /\ sret = "ok"
    /\ Len(sargs.metrics) = MaxSamples
    /\ Len(files[sargs.filename].rows) = MaxSamples
    /\ Cardinality(files[sargs.filename].rows[1].Labels) = 2

\* C30: in every row of every output unit the date field is the UTC calendar
\* date of the row's own timestamp, also when the samples of a unit fall on
\* different days.
C30_DateOfOwnTimestamp ==
    \A k \in Keys :
        \A i \in 1..Len(files[k].rows) :
            files[k].rows[i].Date = (files[k].rows[i].Timestamp \div MillisPerHour) \div HoursPerDay

C30_Witness ==
    \E k \in Keys :
        /\ files[k].footer
        /\ Len(files[k].rows) >= 2
        /\ files[k].rows[1].Date # files[k].rows[2].Date

\* The codec a configured compression value stands for.
CodecOf(compression) ==
    IF compression = "gzip" THEN "GZIP"
    ELSE IF compression = "lz4" THEN "LZ4"
    ELSE IF compression = "zstd" THEN "ZSTD"
    ELSE "SNAPPY"

\* C31: the codec of an output unit is the one the configured compression
\* value selects (gzip, lz4, zstd; snappy for snappy and for any other
\* value), and its row-group size is the configured one.
C31_ConfiguredCodecAndRowGroup ==
    \A k \in Keys :
        Returned(k, "ok") =>
            /\ files[k].codec = CodecOf(sargs.config.Compression)
            /\ files[k].rowGroupSize = sargs.config.RowGroupSize

\* The evaluation timestamps the backend answers a range query for tr with.
EvalTimes(tr) == {StepTimes(tr)[i] : i \in 1..Len(StepTimes(tr))}

\* C32: within one run and for one target, no evaluation timestamp is
\* covered by the query windows of two different batches (a point on the
\* boundary of two consecutive batches is collected in one of them only).
C32_NoTimestampInTwoBatches ==
    \A i \in 1..Len(collectLog) : \A j \in 1..Len(collectLog) :
        (/\ i < j
         /\ collectLog[i].apiProxy = collectLog[j].apiProxy
         /\ collectLog[i].timeRange # NoRange
         /\ collectLog[j].timeRange # NoRange) =>
            EvalTimes(collectLog[i].timeRange) \cap EvalTimes(collectLog[j].timeRange) = {}

\* The channel task m is about to send on has room (the send does not block).
SendHasRoom(m) ==
    /\ tpc[m] = "query" => Len(errorsChan) < ChanCap
    /\ (tpc[m] = "warn" /\ tresp[m].warnings) => Len(warningsChan) < ChanCap
    /\ tpc[m] = "shape" =>
         IF Task(TaskCfg(m).Name, tresp[m]).chan = "errors"
         THEN Len(errorsChan) < ChanCap
         ELSE Len(resultsChan) < ChanCap

\* The channels are closed one after the other, each once, and only when
\* every task of the call has finished.
ClosedAfterTasks ==
    /\ closerpc = "closeResults" => closed = {}
    /\ closerpc = "closeErrors" => closed = {"results"}
    /\ closerpc = "closeWarnings" => closed = {"results", "errors"}
    /\ (closed # {} \/ closerpc \in {"closeResults", "closeErrors", "closeWarnings"}) =>
         \A m \in 1..call.n : tpc[m] = "done"

\* C33: every CollectMetrics / CollectMetricsRange call eventually returns,
\* for any number of metrics (zero included) and any mix of outcomes; no task
\* ever blocks on a send or sends on a closed channel, and each channel is
\* closed exactly once, after every task has finished.
C33_CallsReturn ==
    /\ [](\A m \in 1..NumMetrics : tpc[m] # "panic" /\ SendHasRoom(m))
    /\ []ClosedAfterTasks
    /\ (cpc \notin {"idle", "returned"}) ~> (cpc = "returned")

C33_Witness ==
    /\ cpc = "returned"
    /\ call.n = NumMetrics
    /\ tsent[1] = "errors"
    /\ tsent[2] = "results"
    /\ closed = {"results", "errors", "warnings"}

\* The whole hours from t to u, none when u is not after t.
HoursBetween(t, u) == IF t < u THEN u - t ELSE 0

\* C34: for every start and end, the batch loop of a range-mode run makes
\* finitely many iterations (at most one per hour of the requested range) and
\* the run returns when every collect and Sink call returns; when the end is
\* not after the start the loop makes no iteration: no query and no Sink
\* call for any target.
C34_BatchLoopTerminates ==
    /\ [](RangeRun =>
            /\ \A i \in 1..Len(APIProxies) :
                 Len(RangesOf(collectLog, APIProxies[i])) <= HoursBetween(cfg.StartTime, cfg.EndTime)
            /\ ~Before(cfg.StartTime, cfg.EndTime) =>
                 (collectLog = << >> /\ sinkActive = 0 /\ sinkArgs = NoSinkArgs))
    /\ (mainpc = "run" /\ UseBatches(cfg)) ~> RunReturned

\* A range-mode run whose end is before its start has returned.
C34_Witness ==
    /\ RangeRun
    /\ RunReturned
    /\ cfg.EndTime < cfg.StartTime
    /\ collectLog = << >>

\* C35: every TimeRange passed to CollectMetricsRange has start <= end and
\* step > 0, for every configuration LoadConfig accepts and every pair of
\* start and end flags accepted at startup.
C35_ValidTimeRanges ==
    \A i \in 1..Len(collectLog) :
        collectLog[i].timeRange # NoRange =>
            /\ collectLog[i].timeRange.Start <= collectLog[i].timeRange.End
            /\ collectLog[i].timeRange.Step > 0

\* C36: when StoreMetrics has returned (the finalization-timeout error
\* included) the finalization task it started has ended, so the file writer
\* is not closed during finalization, and no finalization task of an earlier
\* unit is running while a later call is in progress.
C36_FinalizationEndsWithCall ==
    /\ spc = "returned" => sargs.filename \notin orphans
    /\ spc \notin {"idle", "returned"} => orphans = {}

\* A collect call has returned ret without error and without samples.
EmptySuccess(ret) == Len(ret.err) = 0 /\ Len(ret.metrics) = 0

\* The driver's decision for every empty successful result a collect call
\* can return: no Sink call in range mode, a Sink call in instant mode.
EmptyResultDecisions ==
    /\ \A tr \in BatchRanges : \A ret \in RangeReturns(tr) :
         EmptySuccess(ret) => ~RangeStores(ret)
    /\ \A now \in NowTimes : \A ret \in InstantReturns(now) :
         EmptySuccess(ret) => InstantStores(ret)
    /\ \E tr \in BatchRanges : \E ret \in RangeReturns(tr) : EmptySuccess(ret)
    /\ \E now \in NowTimes : \E ret \in InstantReturns(now) : EmptySuccess(ret)

\* C37: a successful collect call that returned zero samples is never passed
\* to the Sink in range mode and always in instant mode, where the Sink call,
\* once it has succeeded, has replaced whatever was at the key by a finalized
\* unit without rows.
C37_EmptyResults ==
    /\ EmptyResultDecisions
    /\ \A k \in Keys :
         (Returned(k, "ok") /\ sargs.metrics = << >>) =>
             /\ files[k].exists
             /\ files[k].footer
             /\ files[k].rows = << >>

\* A Sink call with no samples has succeeded: its key holds a finalized
\* file without rows.
C37_Witness ==
    /\ spc = "returned"
    /\ sret = "ok"
    /\ sargs.metrics = << >>
    /\ files[sargs.filename].exists
    /\ files[sargs.filename].footer
    /\ files[sargs.filename].rows = << >>

\* C38: ticks that fire during a run are not queued: at most one tick is
\* pending at any moment (so at most one when the run returns to the loop),
\* every run other than the initial one is started by the loop consuming one
\* tick, and a consumed tick starts one run: the runs started never exceed
\* one plus the ticks consumed.
C38_TicksNotQueued ==
    /\ [](tickerC <= 1)
    /\ [][activeRuns' > activeRuns =>
            \/ mainpc = "start"
            \/ (mainpc = "select" /\ tickerC >= 1 /\ tickerC' = tickerC - 1)]_vars
    /\ [][tickerC' < tickerC => (mainpc = "select" /\ mainpc' = "run" /\ activeRuns' = 1)]_vars

\* A run of several units has returned to the loop with a tick pending.
C38_Witness ==
    /\ mainpc = "select"
    /\ tickerC = 1
    /\ Len(collectLog) >= 2
    /\ activeRuns = 0

====
